---- MODULE Spec2Model ----
(***************************************************************************)
(* Model of geo/utils/__init__.py: block_split / block_merge on ndarrays,  *)
(* xr_split / xr_merge on a dataset along one dimension, and the wrapper   *)
(* returned by parallel().                                                 *)
(*                                                                         *)
(* A dataset is seen along the split dimension only: it is the sequence of *)
(* its index labels 1..n (label k stands for everything stored at index    *)
(* k-1 of the dimension), so isel and concat are operations on sequences   *)
(* and two datasets are equal exactly when their label sequences are.      *)
(* n / chunks is Python 3 true division, so chunksize is the quotient       *)
(* rounded up; integer division under Python 2 is not modelled.            *)
(***************************************************************************)
EXTENDS Integers, Sequences, FiniteSets, TLC

\* ------------------------------------------------------------------ bounds
MaxN == 10
MaxChunks == 4
MaxBuffer == 3
MaxRank == 2
MaxAxis == 5
MaxSize == 12
MaxBlocks == 3
MaxParts == 9

VARIABLES
    pc,          \* position of the caller / of the wrapper
    caller,      \* "direct": list(xr_split) then xr_merge; "parallel": wrapper
    dim_in_ds,   \* `dim in ds`
    dim_in_sizes,\* dim is a key of ds.sizes
    ds,          \* the dataset along dim
    chunks,      \* number of chunks
    buffer,      \* overlap
    merge,       \* parallel(merge=...)
    compute,     \* parallel(compute=...)
    i,           \* loop index of the xr_split generator
    ds_list,     \* the chunks yielded so far (direct caller's list)
    tampered,    \* what the direct caller did to the list before merging
    result,      \* what the call returned or raised
    rechunked,   \* ds.chunk({dim: chunksize}) was issued
    parts,       \* wrapper: the deferred chunk tasks, in creation order
    merge_task,  \* wrapper: the deferred merge task
    out,         \* engine: outputs of the completed chunk tasks, by task
    fn_args,     \* engine: the arguments fn has been called with, in call order
    merge_input, \* engine: the list xr_merge was called with
    array,       \* block_split's array: [shape, data], data in row-major order
    blocks,      \* the number of blocks per axis
    bpc,         \* position in block_split / block_merge
    bresult,     \* `result` of block_split, then of block_merge
    bi,          \* index of the running loop over blocks
    merged       \* what block_merge returned

vars == <<pc, caller, dim_in_ds, dim_in_sizes, ds, chunks, buffer, merge,
          compute, i, ds_list, tampered, result, rechunked, parts, merge_task,
          out, fn_args, merge_input, array, blocks, bpc, bresult, bi,
          merged>>

inputs == <<caller, dim_in_ds, dim_in_sizes, ds, chunks, buffer, merge, compute>>
engine == <<out, fn_args, merge_input>>
xrvars == <<pc, i, ds_list, tampered, result, rechunked, parts, merge_task,
            inputs, engine>>
blockvars == <<array, blocks, bpc, bresult, bi, merged>>

\* ----------------------------------------------------------------- helpers
Max(a, b) == IF a >= b THEN a ELSE b
Min(a, b) == IF a <= b THEN a ELSE b

\* Python: list concatenation over a list of lists.
RECURSIVE Flatten(_)
Flatten(ll) == IF ll = <<>> THEN <<>> ELSE Head(ll) \o Flatten(Tail(ll))

\* A slice bound: <<>> is None, <<v>> is the integer v.
None == <<>>
Some(v) == <<v>>

\* Python's slice.indices for step 1: a bound clipped into 0..len.
slice_bound(b, len, dflt) ==
    IF b = None THEN dflt
    ELSE IF b[1] < 0 THEN Max(b[1] + len, 0) ELSE Min(b[1], len)

\* ds.isel(**{dim: slice(start, stop)})
isel(d, start, stop) ==
    LET lo == slice_bound(start, Len(d), 0)
        hi == slice_bound(stop, Len(d), Len(d))
    IN  IF lo < hi THEN SubSeq(d, lo + 1, hi) ELSE <<>>

\* xr.concat(parts, dim=dim)
xr_concat(ps) ==
    IF ps = <<>>
    THEN [kind |-> "error", err |-> "ValueError", parts |-> <<>>, data |-> <<>>]
    ELSE [kind |-> "value", err |-> "none", parts |-> ps, data |-> Flatten(ps)]

\* Mutant: the quotient rounded down, as integer division would give.
chunksize_floor(n, c) == n \div c

\* int(np.ceil(n / chunks)), chunks >= 1
chunksize_of(n, c) == (n + c - 1) \div c

\* ---------------------------------------------------------------- xr_split
\* The chunk the generator yields at loop index k (0-based).
xr_split_low(k, chunksize, b) == Max(k * chunksize - b, 0)
xr_split_high(k, chunksize, b, n) == Min((k + 1) * chunksize + b, n)
xr_split_chunk(d, c, b, k) ==
    LET n == Len(d)
        chunksize == chunksize_of(n, c)
        low == xr_split_low(k, chunksize, b)
        high == xr_split_high(k, chunksize, b, n)
    IN  isel(d, Some(low), Some(high))

\* ---------------------------------------------------------------- xr_merge
\* Mutant: interior containers keep their trailing buffer.
xr_merge_parts_keep_tail(l, b) ==
    IF b > 0
    THEN LET k == Len(l)
         IN  <<isel(l[1], None, Some(-b))>>
             \o [j \in 1..Max(k - 2, 0) |-> isel(l[j + 1], Some(b), None)]
             \o <<isel(l[k], Some(b), None)>>
    ELSE l

xr_merge_parts(l, b) ==
    IF b > 0
    THEN LET idx_first == <<None, Some(-b)>>
             idx_middle == <<Some(b), Some(-b)>>
             idx_end == <<Some(b), None>>
             k == Len(l)
         IN  <<isel(l[1], idx_first[1], idx_first[2])>>
             \o [j \in 1..Max(k - 2, 0) |->
                    isel(l[j + 1], idx_middle[1], idx_middle[2])]
             \o <<isel(l[k], idx_end[1], idx_end[2])>>
    ELSE l

xr_merge(l, b) ==
    IF b > 0 /\ l = <<>>
    THEN [kind |-> "error", err |-> "IndexError", parts |-> <<>>, data |-> <<>>]
    ELSE xr_concat(xr_merge_parts(l, b))

NoResult == [kind |-> "pending", err |-> "none", parts |-> <<>>, data |-> <<>>]
Raised(e) == [kind |-> "error", err |-> e, parts |-> <<>>, data |-> <<>>]

\* ------------------------------------------------------------- ndarrays
RECURSIVE Prod(_)
Prod(sq) == IF sq = <<>> THEN 1 ELSE Head(sq) * Prod(Tail(sq))

RECURSIVE Sum(_)
Sum(sq) == IF sq = <<>> THEN 0 ELSE Head(sq) + Sum(Tail(sq))

\* Number of elements one step along `axis` (0-based) skips in row-major order.
stride(shape, axis) == Prod(SubSeq(shape, axis + 2, Len(shape)))

ndim(a) == Len(a.shape)

\* a[..., lo:hi, ...] with the slice on `axis`, 0 <= lo <= hi <= shape[axis].
take(a, axis, lo, hi) ==
    LET st == stride(a.shape, axis)
        oldlen == a.shape[axis + 1]
        newlen == hi - lo
        newshape == [a.shape EXCEPT ![axis + 1] = newlen]
    IN  [shape |-> newshape,
         data |-> [p \in 1..Prod(newshape) |->
                     LET q == p - 1
                         inner == q % st
                         mid == (q \div st) % newlen
                         outer == q \div (st * newlen)
                     IN  a.data[outer * oldlen * st + (mid + lo) * st
                                + inner + 1]]]

\* Mutant: the larger sections come last.
array_split_sizes_trailing(Ntotal, Nsections) ==
    LET Neach == Ntotal \div Nsections
        extras == Ntotal % Nsections
    IN  [j \in 1..Nsections |->
           IF j > Nsections - extras THEN Neach + 1 ELSE Neach]

\* np.array_split: sizes of the sections, as numpy's
\* [0] + extras * [Neach + 1] + (Nsections - extras) * [Neach] without the 0.
array_split_sizes(Ntotal, Nsections) ==
    LET Neach == Ntotal \div Nsections
        extras == Ntotal % Nsections
    IN  [j \in 1..Nsections |-> IF j <= extras THEN Neach + 1 ELSE Neach]

\* np.array_split(a, nblocks, axis=axis)
array_split(a, nblocks, axis) ==
    LET sizes == array_split_sizes(a.shape[axis + 1], nblocks)
        div_point(j) == Sum(SubSeq(sizes, 1, j))
    IN  [j \in 1..nblocks |-> take(a, axis, div_point(j - 1), div_point(j))]

\* What np.concatenate raising stands for.
ArrayError == [shape |-> <<-1>>, data |-> <<>>]

\* np.concatenate(arrs, axis=axis)
concatenate(arrs, axis) ==
    IF arrs = <<>> THEN ArrayError
    ELSE IF \E k \in 1..Len(arrs) :
               \/ ndim(arrs[k]) # ndim(arrs[1])
               \/ axis >= ndim(arrs[k])
               \/ \E x \in 1..ndim(arrs[k]) :
                      x # axis + 1 /\ arrs[k].shape[x] # arrs[1].shape[x]
    THEN ArrayError
    ELSE LET st == stride(arrs[1].shape, axis)
             lens == [k \in 1..Len(arrs) |-> arrs[k].shape[axis + 1]]
             offset(k) == Sum(SubSeq(lens, 1, k - 1))
             total == Sum(lens)
             newshape == [arrs[1].shape EXCEPT ![axis + 1] = total]
         IN  [shape |-> newshape,
              data |-> [p \in 1..Prod(newshape) |->
                 LET q == p - 1
                     inner == q % st
                     mid == (q \div st) % total
                     outer == q \div (st * total)
                     k == CHOOSE x \in 1..Len(arrs) :
                             offset(x) <= mid /\ mid < offset(x) + lens[x]
                 IN  arrs[k].data[outer * lens[k] * st
                                  + (mid - offset(k)) * st + inner + 1]]]

\* chunks(l, n): successive n-sized chunks of l, n >= 1.
chunks_of(l, n) ==
    [c \in 1..((Len(l) + n - 1) \div n) |->
        SubSeq(l, (c - 1) * n + 1, Min(c * n, Len(l)))]

\* Mutant: the axes taken in the order of blocks, not of blocks[::-1].
block_merge_axis_forward(nblk, k) == k

\* The axis block_merge concatenates along in turn i of its loop over
\* blocks[::-1].
block_merge_axis(nblk, k) == nblk - k - 1

\* One turn of block_split's loop: lines 208-209.
block_split_turn(res, nblocks, axis) ==
    Flatten([x \in 1..Len(res) |-> array_split(res[x], nblocks, axis)])

\* One turn of block_merge's loop: lines 234-236.
block_merge_turn(res, nblocks, axis) ==
    LET cs == chunks_of(res, nblocks)
    IN  [c \in 1..Len(cs) |-> concatenate(cs[c], axis)]

BlockIdle ==
    /\ array = [shape |-> <<>>, data |-> <<0>>]
    /\ blocks = <<>>
    /\ bpc = "idle"
    /\ bresult = <<>>
    /\ bi = 0
    /\ merged = ArrayError

\* -------------------------------------------------------------------- Init
Init ==
    /\ pc = "start"
    /\ caller \in {"direct", "parallel"}
    /\ dim_in_ds \in BOOLEAN
    /\ dim_in_sizes \in BOOLEAN
    \* The wrapper is called on datasets whose dimension is not empty.
    /\ \E n \in 0..MaxN :
          /\ (~dim_in_sizes => n = 0)
          /\ (caller = "parallel" /\ dim_in_sizes => n >= 1)
          /\ ds = [k \in 1..n |-> k]
    /\ chunks \in 0..MaxChunks
    /\ buffer \in 0..MaxBuffer
    /\ merge \in BOOLEAN
    /\ compute \in BOOLEAN
    /\ (caller = "direct" => merge /\ compute /\ dim_in_ds = dim_in_sizes)
    /\ i = 0
    /\ ds_list = <<>>
    /\ tampered = "no"
    /\ result = NoResult
    /\ rechunked = FALSE
    /\ parts = <<>>
    /\ merge_task = <<>>
    /\ out = <<>>
    /\ fn_args = <<>>
    /\ merge_input = <<>>
    /\ BlockIdle

\* ------------------------------------------- direct use: split, then merge
\* First next() on the generator: lines 257-258.
xr_split_begin ==
    /\ pc = "start"
    /\ caller = "direct"
    /\ IF ~dim_in_sizes
       THEN pc' = "raised" /\ result' = Raised("KeyError")
       ELSE IF chunks = 0
       THEN pc' = "raised" /\ result' = Raised("ZeroDivisionError")
       ELSE pc' = "splitting" /\ result' = result
    /\ UNCHANGED <<blockvars, inputs, i, ds_list, tampered, rechunked, parts,
                   merge_task, engine>>

\* One turn of the loop at lines 259-264.
xr_split_yield ==
    /\ pc = "splitting"
    /\ caller = "direct"
    /\ i < chunks
    /\ ds_list' = Append(ds_list, xr_split_chunk(ds, chunks, buffer, i))
    /\ i' = i + 1
    /\ UNCHANGED <<blockvars, pc, inputs, tampered, result, rechunked, parts,
                   merge_task, engine>>

\* range(chunks) is exhausted: the generator stops.
xr_split_stop ==
    /\ pc = "splitting"
    /\ caller = "direct"
    /\ i = chunks
    /\ pc' = "split_done"
    /\ UNCHANGED <<blockvars, inputs, i, ds_list, tampered, result, rechunked,
                   parts, merge_task, engine>>

\* The caller drops one container of the list before merging.
caller_drops ==
    /\ pc = "split_done"
    /\ tampered = "no"
    /\ \E j \in 1..Len(ds_list) :
          ds_list' = SubSeq(ds_list, 1, j - 1)
                     \o SubSeq(ds_list, j + 1, Len(ds_list))
    /\ tampered' = "dropped"
    /\ UNCHANGED <<blockvars, pc, inputs, i, result, rechunked, parts,
                   merge_task, engine>>

\* The caller appends one more container (a copy of one it holds).
caller_appends ==
    /\ pc = "split_done"
    /\ tampered = "no"
    /\ \E j \in 1..Len(ds_list) : ds_list' = Append(ds_list, ds_list[j])
    /\ tampered' = "appended"
    /\ UNCHANGED <<blockvars, pc, inputs, i, result, rechunked, parts,
                   merge_task, engine>>

\* xr_merge(ds_list, dim, buffer): lines 280-289.
caller_merges ==
    /\ pc = "split_done"
    /\ result' = xr_merge(ds_list, buffer)
    /\ pc' = IF result'.kind = "error" THEN "raised" ELSE "returned"
    /\ UNCHANGED <<blockvars, inputs, i, ds_list, tampered, rechunked, parts,
                   merge_task, engine>>

\* ------------------------------------------------- the wrapper of parallel
\* The transformation function handed to parallel(); here the identity.
fn(part) == part

\* Mutant: the task list handed over in reverse creation order.
merge_args_reversed(ps) == [k \in 1..Len(ps) |-> Len(ps) - k + 1]

\* The task list handed to delayed(xr_merge): `parts`, in creation order.
\* Entry k is the index into parts of the task whose output becomes the
\* k-th element of xr_merge's ds_list.
merge_args(ps) == [k \in 1..Len(ps) |-> k]

\* Mutant: the membership test is missing.
wrapper_checks_dim_skipped ==
    /\ pc = "start"
    /\ caller = "parallel"
    /\ pc' = "sizes"
    /\ UNCHANGED <<blockvars, inputs, i, ds_list, tampered, result, rechunked,
                   parts, merge_task, engine>>

\* Lines 333-335.
wrapper_checks_dim ==
    /\ pc = "start"
    /\ caller = "parallel"
    /\ IF ~dim_in_ds
       THEN pc' = "raised" /\ result' = Raised("ValueError")
       ELSE pc' = "sizes" /\ result' = result
    /\ UNCHANGED <<blockvars, inputs, i, ds_list, tampered, rechunked, parts,
                   merge_task, engine>>

\* Lines 339-340.
wrapper_sizes ==
    /\ pc = "sizes"
    /\ IF ~dim_in_sizes
       THEN pc' = "raised" /\ result' = Raised("KeyError")
       ELSE IF chunks = 0
       THEN pc' = "raised" /\ result' = Raised("ZeroDivisionError")
       ELSE pc' = "rechunk" /\ result' = result
    /\ UNCHANGED <<blockvars, inputs, i, ds_list, tampered, rechunked, parts,
                   merge_task, engine>>

\* Line 341.
wrapper_rechunks ==
    /\ pc = "rechunk"
    /\ rechunked' = TRUE
    /\ pc' = "parts"
    /\ UNCHANGED <<blockvars, inputs, i, ds_list, tampered, result, parts,
                   merge_task, engine>>

\* Lines 344-345, one turn: xr_split yields a chunk, delayed(fn)(part) makes
\* a task of it.
wrapper_adds_part ==
    /\ pc = "parts"
    /\ i < chunks
    /\ parts' = Append(parts, [arg |-> xr_split_chunk(ds, chunks, buffer, i)])
    /\ i' = i + 1
    /\ UNCHANGED <<blockvars, pc, inputs, ds_list, tampered, result,
                   rechunked, merge_task, engine>>

\* Lines 346-349.
wrapper_builds_result ==
    /\ pc = "parts"
    /\ i = chunks
    /\ merge_task' = IF merge THEN merge_args(parts) ELSE <<>>
    /\ pc' = "built"
    /\ UNCHANGED <<blockvars, inputs, i, ds_list, tampered, result, rechunked,
                   parts, engine>>

\* Lines 351-354.
wrapper_returns ==
    /\ pc = "built"
    /\ IF compute
       THEN pc' = "computing" /\ result' = result
       ELSE pc' = "deferred"
            /\ result' = [kind |-> "delayed", err |-> "none",
                          parts |-> <<>>, data |-> <<>>]
    /\ UNCHANGED <<blockvars, inputs, i, ds_list, tampered, rechunked, parts,
                   merge_task, engine>>

\* The caller of a deferred result computes it later.
caller_computes ==
    /\ pc = "deferred"
    /\ pc' = "computing"
    /\ UNCHANGED <<blockvars, inputs, i, ds_list, tampered, result, rechunked,
                   parts, merge_task, engine>>

\* ------------------------------------------------------ the engine (dask)
\* The engine runs any chunk task that has not run yet.
engine_runs_chunk ==
    /\ pc = "computing"
    /\ \E j \in (1..Len(parts)) \ DOMAIN out :
          /\ out' = [k \in DOMAIN out \cup {j} |->
                        IF k = j THEN fn(parts[j].arg) ELSE out[k]]
          /\ fn_args' = Append(fn_args, parts[j].arg)
    /\ UNCHANGED <<blockvars, pc, inputs, i, ds_list, tampered, result,
                   rechunked, parts, merge_task, merge_input>>

\* The merge task runs once every task it takes its input from has run.
engine_runs_merge ==
    /\ pc = "computing"
    /\ merge
    /\ \A k \in 1..Len(merge_task) : merge_task[k] \in DOMAIN out
    /\ merge_input' = [k \in 1..Len(merge_task) |-> out[merge_task[k]]]
    /\ result' = xr_merge(merge_input', buffer)
    /\ pc' = IF result'.kind = "error" THEN "raised" ELSE "returned"
    /\ UNCHANGED <<blockvars, inputs, i, ds_list, tampered, rechunked, parts,
                   merge_task, out, fn_args>>

\* merge=False: the result is the list of the chunk tasks' outputs.
engine_collects ==
    /\ pc = "computing"
    /\ ~merge
    /\ DOMAIN out = 1..Len(parts)
    /\ result' = [kind |-> "list", err |-> "none",
                  parts |-> [k \in 1..Len(parts) |-> out[k]], data |-> <<>>]
    /\ pc' = "returned"
    /\ UNCHANGED <<blockvars, inputs, i, ds_list, tampered, rechunked, parts,
                   merge_task, engine>>

Next ==
    \/ xr_split_begin
    \/ xr_split_yield
    \/ xr_split_stop
    \/ caller_drops
    \/ caller_appends
    \/ caller_merges
    \/ wrapper_checks_dim
    \/ wrapper_sizes
    \/ wrapper_rechunks
    \/ wrapper_adds_part
    \/ wrapper_builds_result
    \/ wrapper_returns
    \/ caller_computes
    \/ engine_runs_chunk
    \/ engine_runs_merge
    \/ engine_collects

Spec == Init /\ [][Next]_vars

\* ------------------------------------------------ block_split, block_merge
XrIdle ==
    /\ pc = "idle"
    /\ caller = "none"
    /\ dim_in_ds = FALSE
    /\ dim_in_sizes = FALSE
    /\ ds = <<>>
    /\ chunks = 0
    /\ buffer = 0
    /\ merge = FALSE
    /\ compute = FALSE
    /\ i = 0
    /\ ds_list = <<>>
    /\ tampered = "no"
    /\ result = NoResult
    /\ rechunked = FALSE
    /\ parts = <<>>
    /\ merge_task = <<>>
    /\ out = <<>>
    /\ fn_args = <<>>
    /\ merge_input = <<>>

Shapes ==
    {sh \in UNION {[1..r -> 0..MaxAxis] : r \in 0..MaxRank} :
        Prod(sh) <= MaxSize}

BlockSpecs ==
    {b \in UNION {[1..r -> 1..MaxBlocks] : r \in 0..MaxRank} :
        Prod(b) <= MaxParts}

InitBlock ==
    /\ XrIdle
    /\ \E sh \in Shapes :
          array = [shape |-> sh, data |-> [p \in 1..Prod(sh) |-> p]]
    /\ blocks \in BlockSpecs
    /\ bpc = "start"
    /\ bresult = <<>>
    /\ bi = 0
    /\ merged = ArrayError

\* Lines 202-206.
block_split_begin ==
    /\ bpc = "start"
    /\ IF ndim(array) # Len(blocks)
       THEN bpc' = "raised" /\ bresult' = bresult
       ELSE bpc' = "splitting" /\ bresult' = <<array>>
    /\ UNCHANGED <<xrvars, array, blocks, bi, merged>>

\* Lines 207-209, one axis.
block_split_axis ==
    /\ bpc = "splitting"
    /\ bi < Len(blocks)
    /\ bresult' = block_split_turn(bresult, blocks[bi + 1], bi)
    /\ bi' = bi + 1
    /\ UNCHANGED <<xrvars, array, blocks, bpc, merged>>

\* Line 210.
block_split_return ==
    /\ bpc = "splitting"
    /\ bi = Len(blocks)
    /\ bpc' = "split_done"
    /\ UNCHANGED <<xrvars, array, blocks, bresult, bi, merged>>

\* block_merge(block_split(array, blocks), blocks): lines 228-232.
block_merge_begin ==
    /\ bpc = "split_done"
    /\ IF Len(bresult) # Prod(blocks)
       THEN bpc' = "raised"
       ELSE bpc' = "merging"
    /\ bi' = 0
    /\ UNCHANGED <<xrvars, array, blocks, bresult, merged>>

\* Lines 233-236, one entry of blocks[::-1].
block_merge_step ==
    /\ bpc = "merging"
    /\ bi < Len(blocks)
    /\ LET nblocks == blocks[Len(blocks) - bi]
           axis == block_merge_axis(Len(blocks), bi)
           res == block_merge_turn(bresult, nblocks, axis)
       IN  IF \E c \in 1..Len(res) : res[c] = ArrayError
           THEN bpc' = "raised" /\ bresult' = bresult
           ELSE bpc' = bpc /\ bresult' = res
    /\ bi' = bi + 1
    /\ UNCHANGED <<xrvars, array, blocks, merged>>

\* Line 237.
block_merge_return ==
    /\ bpc = "merging"
    /\ bi = Len(blocks)
    /\ merged' = bresult[1]
    /\ bpc' = "merged"
    /\ UNCHANGED <<xrvars, array, blocks, bresult, bi>>

NextBlock ==
    \/ block_split_begin
    \/ block_split_axis
    \/ block_split_return
    \/ block_merge_begin
    \/ block_merge_step
    \/ block_merge_return

SpecBlock == InitBlock /\ [][NextBlock]_vars

\* ================================================================ claims
\* What the claims speak of, stated without the code's slicing.
n_of == Len(ds)

\* ceil(n / c): the least q with q * c >= n.
Ceil(n, c) == CHOOSE q \in 0..n : q * c >= n /\ (q = 0 \/ (q - 1) * c < n)

\* The labels of the index range [lo, hi), in increasing order.
Range(lo, hi) == [j \in 1..Max(hi - lo, 0) |-> lo + j]

\* The range the claims give to chunk k (0-based) of a split.
ClaimedChunk(k) ==
    Range(Max(k * Ceil(n_of, chunks) - buffer, 0),
          Min((k + 1) * Ceil(n_of, chunks) + buffer, n_of))

DropLast(s, b) == [j \in 1..Max(Len(s) - b, 0) |-> s[j]]
DropFirst(s, b) == [j \in 1..Max(Len(s) - b, 0) |-> s[j + b]]

DirectDone == caller = "direct" /\ pc \in {"returned", "raised"}
Untampered == tampered = "no"

\* C1: for n >= 1, chunks >= 1 and 0 <= buffer < chunksize, merging the
\* chunks of a split gives back the dataset exactly.
C1_RoundTrip ==
    (DirectDone /\ Untampered /\ n_of >= 1 /\ chunks >= 1
        /\ buffer < Ceil(n_of, chunks))
    => (result.kind = "value" /\ result.data = ds)

C10_NoEmptyChunk ==
    (n_of >= 1 /\ 1 <= chunks /\ chunks <= n_of /\ Untampered)
    => /\ \A k \in 1..Len(ds_list) : ds_list[k] # <<>>
       /\ \A k \in 1..Len(parts) : parts[k].arg # <<>>
       /\ \A k \in 1..Len(fn_args) : fn_args[k] # <<>>

\* C9: for a list of k >= 1 containers and buffer > 0, xr_merge concatenates
\* exactly k parts in input order: the first without its last `buffer`
\* elements, each interior one without `buffer` elements at both ends, the
\* last without its first `buffer` elements; with buffer = 0 it concatenates
\* the k containers as they are.
C9_TrimPolicy ==
    (DirectDone /\ n_of >= 1 /\ Len(ds_list) >= 1)
    => LET k == Len(ds_list) IN
       /\ result.kind = "value"
       /\ Len(result.parts) = k
       /\ \A j \in 1..k :
             result.parts[j] =
                IF buffer = 0 THEN ds_list[j]
                ELSE IF j = 1 THEN DropLast(ds_list[j], buffer)
                ELSE IF j = k THEN DropFirst(ds_list[j], buffer)
                ELSE DropFirst(DropLast(ds_list[j], buffer), buffer)
       /\ result.data = Flatten(result.parts)

\* C6: with buffer >= chunksize, xr_split, xr_merge and the wrapper raise a
\* configuration error: no call ends by returning a concatenation, a list of
\* outputs or a task graph made of chunks whose trimmed range is empty.
C6_OversizedBufferRejected ==
    (dim_in_ds /\ dim_in_sizes /\ n_of >= 1 /\ chunks >= 1
        /\ buffer >= Ceil(n_of, chunks))
    => result.kind \notin {"value", "list", "delayed"}

C3_FailFast ==
    (caller = "parallel" /\ (~dim_in_ds \/ ~dim_in_sizes))
    => /\ pc \in {"start", "sizes", "raised"}
       /\ (~dim_in_ds => pc \in {"start", "raised"})
       /\ (pc = "raised" => result.kind = "error")
       /\ ~rechunked
       /\ i = 0
       /\ parts = <<>>
       /\ merge_task = <<>>
       /\ out = <<>>
       /\ fn_args = <<>>

C3_Witness ==
    /\ caller = "parallel" /\ ~dim_in_ds /\ ~dim_in_sizes
    /\ pc = "raised" /\ result.err = "ValueError"
    /\ ~merge /\ ~compute /\ buffer > 0 /\ chunks >= 1
    /\ ~rechunked /\ parts = <<>>

\* C4: with merge=True the merge task runs only after every chunk task has
\* completed, and its input list holds their outputs in chunk index order
\* 0..chunks-1, whatever order the engine ran them in.
MergeRan == merge_input # <<>>
C4_MergeOrder ==
    (caller = "parallel" /\ merge /\ MergeRan)
    => /\ DOMAIN out = 1..chunks
       /\ Len(fn_args) = chunks
       /\ Len(merge_input) = chunks
       /\ \A k \in 1..chunks : merge_input[k] = fn(ClaimedChunk(k - 1))

C4_Witness ==
    /\ caller = "parallel" /\ merge /\ MergeRan
    /\ chunks = 3 /\ n_of = 9 /\ buffer = 0
    /\ fn_args = << <<7, 8, 9>>, <<1, 2, 3>>, <<4, 5, 6>> >>
    /\ merge_input = << <<1, 2, 3>>, <<4, 5, 6>>, <<7, 8, 9>> >>

\* ------------------------------------------------------- claims on blocks
\* Product of the entries of sq after the first a.
TailProd(sq, a) == Prod(SubSeq(sq, a + 1, Len(sq)))

\* Coordinate on axis a (1-based) of the q-th (0-based) element, row-major.
Coord(shape, q, a) == (q \div TailProd(shape, a)) % shape[a]

\* Row-major position (1-based) of the element with coordinates c.
FlatIndex(shape, c) ==
    Sum([a \in 1..Len(shape) |-> c[a] * TailProd(shape, a)]) + 1

\* Size and start of part j (0-based) of an axis of size N cut in k parts:
\* the N % k leading parts have one element more.
PartSize(N, k, j) == (N \div k) + (IF j < N % k THEN 1 ELSE 0)
PartStart(N, k, j) == Sum([x \in 1..j |-> PartSize(N, k, x - 1)])

\* The block the claim puts at row-major position pos (1-based) of the list.
ClaimedBlock(pos) ==
    LET I == [a \in 1..Len(blocks) |-> Coord(blocks, pos - 1, a)]
        sh == [a \in 1..Len(blocks) |->
                 PartSize(array.shape[a], blocks[a], I[a])]
    IN  [shape |-> sh,
         data |-> [p \in 1..Prod(sh) |->
            array.data[FlatIndex(array.shape,
               [a \in 1..Len(blocks) |->
                  Coord(sh, p - 1, a)
                  + PartStart(array.shape[a], blocks[a], I[a])])]]]

C2_BlockRoundTrip ==
    (ndim(array) = Len(blocks) /\ bpc # "idle")
    => /\ bpc # "raised"
       /\ (bpc = "merged"
             => /\ merged.shape = array.shape
                /\ \A p \in 1..Prod(array.shape) :
                      merged.data[p] = array.data[p])

C2_Witness ==
    /\ bpc = "merged"
    /\ array.shape = <<3, 4>> /\ blocks = <<2, 3>>
    /\ merged = [shape |-> <<3, 4>>,
                 data |-> <<1, 2, 3, 4, 5, 6, 7, 8, 9, 10, 11, 12>>]

====
